---- MODULE Spec2Model ----
(***************************************************************************)
(* Recruiter Chat API (src/main.py): POST /api/chat and GET /api/health   *)
(* over one MongoDB collection and the Groq chat-completions endpoint.    *)
(*                                                                         *)
(* Every chat call is a sequence of steps separated by the places where   *)
(* another call can act on the shared collection: find_one, insert_one,   *)
(* the awaited provider request, update_one.  Calls may run on different  *)
(* instances that share the one collection, so every interleaving of     *)
(* these steps is a behaviour of a deployment.                            *)
(*                                                                         *)
(* Optional values (Python None) are sequences of length 0 or 1, so that  *)
(* a field always holds values of one shape.                              *)
(***************************************************************************)
EXTENDS Integers, Sequences, FiniteSets, TLC

\* ---- bounds of the model ------------------------------------------------
MaxCalls == 2
MaxInitPairs == 10

\* ---- program constants --------------------------------------------------
ContextLimit == 10
TimeoutStatus == 504
InternalStatus == 500
UnhealthyStatus == 503
OkStatus == 200

CANDIDATE_INFO == "CANDIDATE_INFO"

\* ---- inputs -------------------------------------------------------------
Calls == 1..MaxCalls
SessionIds == {"s1", "s2"}
\* The code never inspects a message or a completion text: each call
\* carries its own, so that the turns of two calls can be told apart.
MessageTexts == <<"m1", "m2", "m3">>
CompletionTexts == <<"r1", "r2", "r3">>
MessageOf(c) == MessageTexts[((c - 1) % Len(MessageTexts)) + 1]
CompletionOf(c) == CompletionTexts[((c - 1) % Len(CompletionTexts)) + 1]
ProviderStatuses == {200, 429, 503}
ErrorBodies == {"busy"}
ApiKeys == {"", "gsk"}
None == <<>>
Some(x) == <<x>>

\* RecruiterInfo objects a request can carry (None, or an object whose
\* unset fields are None)
RecruiterInfoValues ==
    { [company |-> "acme", email |-> "None", name |-> "None"] }
RecruiterInfoInputs == {None} \cup {Some(r) : r \in RecruiterInfoValues}

\* chat_request.recruiter_info.dict() if chat_request.recruiter_info else {}
RecruiterDict(ri) ==
    IF ri = None THEN {}
    ELSE { <<"company", ri[1].company>>, <<"email", ri[1].email>>,
           <<"name", ri[1].name>> }

VARIABLES
    chats_collection,   \* the documents of db.chats, in insertion order
    calls,              \* the requests: endpoint, position and local variables
    clock,              \* what datetime.utcnow() returns
    overlapped,         \* history: a call began on the session while another ran
    successes           \* history: <<message, reply>> of the 200 calls, per session

vars == <<chats_collection, calls, clock, overlapped, successes>>

\* ---- exceptions and responses -------------------------------------------
\* HTTPException(status_code, detail) and the other exceptions, which have
\* no status code (0)
HTTPException(code, detail) ==
    [type |-> "HTTPException", status_code |-> code, detail |-> detail]
OtherException(type, text) ==
    [type |-> type, status_code |-> 0, detail |-> <<text>>]

NoResponse ==
    [status_code |-> 0, response |-> "", session_id |-> "", detail |-> <<>>]
\* an answer that does not name the session
ChatResponseNoSession(text, sid) ==
    [status_code |-> OkStatus, response |-> text, session_id |-> "", detail |-> <<>>]

ChatResponse(text, sid) ==
    [status_code |-> OkStatus, response |-> text, session_id |-> sid, detail |-> <<>>]
ErrorResponse(e) ==
    [status_code |-> e.status_code, response |-> "", session_id |-> "",
     detail |-> e.detail]

\* ---- the collection ------------------------------------------------------
Matching(coll, sid) == { i \in 1..Len(coll) : coll[i].session_id = sid }
Min(S) == CHOOSE x \in S : \A y \in S : x <= y

\* a lookup whose filter matches no document
FindOneMisses(coll, sid) == None

\* find_one: the first matching document in natural order, or None
FindOne(coll, sid) ==
    IF Matching(coll, sid) = {} THEN None
    ELSE Some(coll[Min(Matching(coll, sid))])

\* a new document that forgets the metadata of the request
NewChatDocNoMetadata(req, now) ==
    [session_id |-> req.session_id,
     messages |-> <<>>,
     recruiter_info |-> {},
     created_at |-> now,
     updated_at |-> None]

\* the document built at lines 154-159 (it has no updated_at field)
NewChatDoc(req, now) ==
    [session_id |-> req.session_id,
     messages |-> <<>>,
     recruiter_info |-> RecruiterDict(req.recruiter_info),
     created_at |-> now,
     updated_at |-> None]

\* insert_one: no unique index is declared on session_id, the document
\* is added whatever the collection holds
InsertOne(coll, doc) == Append(coll, doc)

\* a push that stores the pair in the wrong order
UpdateOnePushReversed(coll, sid, turns, now) ==
    IF Matching(coll, sid) = {} THEN coll
    ELSE LET i == Min(Matching(coll, sid)) IN
         [coll EXCEPT ![i].messages = coll[i].messages \o <<turns[2], turns[1]>>,
                      ![i].updated_at = Some(now)]

\* an update that also sets created_at
UpdateOnePushSetCreated(coll, sid, turns, now) ==
    IF Matching(coll, sid) = {} THEN coll
    ELSE LET i == Min(Matching(coll, sid)) IN
         [coll EXCEPT ![i].messages = coll[i].messages \o turns,
                      ![i].created_at = now,
                      ![i].updated_at = Some(now)]

\* an update that pushes the user turn only
UpdateOnePushUserOnly(coll, sid, turns, now) ==
    IF Matching(coll, sid) = {} THEN coll
    ELSE LET i == Min(Matching(coll, sid)) IN
         [coll EXCEPT ![i].messages = Append(coll[i].messages, turns[1]),
                      ![i].updated_at = Some(now)]

\* an update that sets the messages to the new pair instead of pushing it
UpdateOneSetMessages(coll, sid, turns, now) ==
    IF Matching(coll, sid) = {} THEN coll
    ELSE LET i == Min(Matching(coll, sid)) IN
         [coll EXCEPT ![i].messages = turns,
                      ![i].updated_at = Some(now)]

\* update_one with $push/$each and $set: the first matching document only
UpdateOnePush(coll, sid, turns, now) ==
    IF Matching(coll, sid) = {} THEN coll
    ELSE LET i == Min(Matching(coll, sid)) IN
         [coll EXCEPT ![i].messages = coll[i].messages \o turns,
                      ![i].updated_at = Some(now)]

\* the slice [:10] in place of [-10:]
FirstTurns(msgs) ==
    IF Len(msgs) <= ContextLimit THEN msgs
    ELSE SubSeq(msgs, 1, ContextLimit)

\* chat_doc["messages"][-10:] if chat_doc["messages"] else []
LastTurns(msgs) ==
    IF Len(msgs) <= ContextLimit THEN msgs
    ELSE SubSeq(msgs, Len(msgs) - ContextLimit + 1, Len(msgs))

\* the dict appended at line 171: role and content only
ContextEntry(role, content) == [role |-> role, content |-> content]

\* the system prompt added after the messages
ApiMessagesSystemLast(messages) ==
    messages \o <<ContextEntry("system", CANDIDATE_INFO)>>

\* lines 99-102
ApiMessages(messages) ==
    <<ContextEntry("system", CANDIDATE_INFO)>> \o messages

\* json= of client.post: json.dumps has no encoding for a datetime value
JsonEncodable(messages) ==
    \A i \in 1..Len(messages) : "timestamp" \notin DOMAIN messages[i]

\* ---- a chat call ---------------------------------------------------------
NoTurn == [role |-> "", content |-> "", timestamp |-> 0]
NoRequest == [message |-> "", session_id |-> "", recruiter_info |-> None]

IdleCall ==
    [pc |-> "idle",
     endpoint |-> "",            \* "/api/chat" or "/api/health"
     chat_request |-> NoRequest,
     chat_doc |-> None,
     user_message |-> NoTurn,
     messages_for_ai |-> <<>>,
     api_messages |-> <<>>,
     groq_api_key |-> None,      \* os.getenv("GROQ_API_KEY"), once read
     ai_response |-> "",
     assistant_message |-> NoTurn,
     client_error |-> None,      \* what get_chat_response raised
     upstream |-> None,          \* the provider's answer, if it answered
     response |-> NoResponse,    \* what the caller of POST /api/chat got
     requests_sent |-> 0,        \* history: outbound completion requests
     lookup |-> "",              \* history: find_one gave "absent" or "present"
     inserted |-> 0,             \* history: documents inserted
     pushed |-> 0]               \* history: turns pushed

Running(c) == calls[c].pc \notin {"idle", "done"}
IsChat(c) == calls[c].endpoint = "/api/chat"

\* a handler that lets an HTTPException through with its own status
EndpointCatchPassThrough(e) ==
    IF e.type = "HTTPException" THEN e
    ELSE HTTPException(InternalStatus, <<"Error processing chat">> \o e.detail)

\* line 198-199: every exception of the body, an HTTPException of
\* get_chat_response included, becomes a 500
EndpointCatch(e) ==
    HTTPException(InternalStatus, <<"Error processing chat">> \o e.detail)

\* line 136-137: except Exception in get_chat_response; it also catches
\* the HTTPException raised at line 129 inside the try block
ClientCatch(e) ==
    HTTPException(InternalStatus, <<"Error calling Groq API">> \o e.detail)

\* the handler has returned or raised: its local variables are gone, what
\* stays is whom the call was for, its message, the answer and the history
\* of the call
Returned(call, resp) ==
    [IdleCall EXCEPT !.pc = "done",
                     !.endpoint = call.endpoint,
                     !.chat_request = [call.chat_request EXCEPT
                                          !.recruiter_info = None],
                     !.groq_api_key = call.groq_api_key,
                     !.client_error = call.client_error,
                     !.upstream = call.upstream,
                     !.response = resp,
                     !.requests_sent = call.requests_sent,
                     !.lookup = call.lookup,
                     !.inserted = call.inserted,
                     !.pushed = call.pushed]

\* an exception e raised in the try body of chat_endpoint ends the call
Fail(call, e) ==
    Returned(call, ErrorResponse(EndpointCatch(e)))

\* a client that swallows its failure and returns an empty text, so that
\* the body of chat_endpoint goes on to line 176
ClientFailSwallowed(call, e) ==
    [call EXCEPT !.client_error = Some(e),
                 !.ai_response = "",
                 !.assistant_message = [role |-> "assistant", content |-> "",
                                        timestamp |-> 0],
                 !.pc = "update_one"]

\* a client that sends the request again after a failure
ClientFailRetry(call, e) ==
    [call EXCEPT !.pc = "post"]

\* get_chat_response raised e: line 174 does not return, and no later
\* statement of the try body runs
ClientFail(call, e) ==
    Fail([call EXCEPT !.client_error = Some(e)], e)

\* the credential check placed after the request
KeyMissingAfterPost(call) ==
    ClientFail([call EXCEPT !.requests_sent = @ + 1],
               HTTPException(InternalStatus, <<"Groq API key not configured">>))

\* lines 105-106: raised before the request is built
KeyMissing(call) ==
    ClientFail(call, HTTPException(InternalStatus, <<"Groq API key not configured">>))

RECURSIVE TotalTurns(_)
TotalTurns(coll) ==
    IF coll = <<>> THEN 0 ELSE Len(Head(coll).messages) + TotalTurns(Tail(coll))

\* ---- initial state -------------------------------------------------------
\* The collection outlives the process and is shared by the instances.  At
\* the start it holds a long session "s1", left by MaxInitPairs calls that
\* all read the session before any of them pushed its pair, and nothing for
\* the other session ids.
InitTurn(i) ==
    [role |-> IF i % 2 = 1 THEN "user" ELSE "assistant",
     content |-> IF i % 2 = 1 THEN "m0" ELSE "r0",
     timestamp |-> i - 2 * MaxInitPairs - 1]
InitDoc ==
    [session_id |-> "s1",
     messages |-> [i \in 1..(2 * MaxInitPairs) |-> InitTurn(i)],
     recruiter_info |-> {},
     created_at |-> 0 - 2 * MaxInitPairs - 2,
     updated_at |-> Some(0)]

Init ==
    /\ chats_collection = <<InitDoc>>
    /\ overlapped = [s \in SessionIds |-> s = "s1"]
    /\ successes = [s \in SessionIds |-> <<>>]
    /\ calls = [c \in Calls |-> IdleCall]
    /\ clock = 0

\* ---- actions -------------------------------------------------------------
\* POST /api/chat arrives with a valid body (line 145), later than the
\* requests before it
Receive(c) ==
    /\ calls[c].pc = "idle"
    /\ \A d \in Calls : d < c => calls[d].pc # "idle"
    /\ \E sid \in SessionIds, ri \in RecruiterInfoInputs :
         /\ calls' = [calls EXCEPT ![c] =
                [IdleCall EXCEPT !.pc = "find_one",
                                 !.endpoint = "/api/chat",
                                 !.chat_request = [message |-> MessageOf(c),
                                                   session_id |-> sid,
                                                   recruiter_info |-> ri]]]
         /\ overlapped' = [overlapped EXCEPT ![sid] =
                @ \/ \E d \in Calls : d # c /\ Running(d)
                                      /\ calls[d].chat_request.session_id = sid]
    /\ clock' = clock + 1
    /\ UNCHANGED <<chats_collection, successes>>

\* line 150
FindOneStep(c) ==
    /\ calls[c].pc = "find_one"
    /\ \/ LET doc == FindOne(chats_collection, calls[c].chat_request.session_id) IN
          calls' = [calls EXCEPT ![c].chat_doc = doc,
                                 ![c].lookup = IF doc = None THEN "absent" ELSE "present",
                                 ![c].pc = IF doc = None THEN "insert_one"
                                           ELSE "get_chat_response"]
       \/ calls' = [calls EXCEPT ![c] = Fail(calls[c], OtherException("PyMongoError", "find_one"))]
    /\ UNCHANGED <<chats_collection, clock, overlapped, successes>>

\* lines 152-160
InsertOneStep(c) ==
    /\ calls[c].pc = "insert_one"
    /\ \/ LET doc == NewChatDoc(calls[c].chat_request, clock) IN
          /\ chats_collection' = InsertOne(chats_collection, doc)
          /\ calls' = [calls EXCEPT ![c].chat_doc = Some(doc),
                                    ![c].inserted = @ + 1,
                                    ![c].pc = "get_chat_response"]
       \/ /\ calls' = [calls EXCEPT ![c] =
                          Fail(calls[c], OtherException("PyMongoError", "insert_one"))]
          /\ UNCHANGED chats_collection
    /\ UNCHANGED <<clock, overlapped, successes>>

\* lines 162-174 and 98-106: the context, the call of get_chat_response,
\* its message list and its credential check
GetChatResponse(c) ==
    /\ calls[c].pc = "get_chat_response"
    /\ \E key \in ApiKeys :
         LET messages == Append(LastTurns(calls[c].chat_doc[1].messages),
                                ContextEntry("user", calls[c].chat_request.message))
             entered == [calls[c] EXCEPT
                           !.user_message = [role |-> "user",
                                             content |-> calls[c].chat_request.message,
                                             timestamp |-> clock],
                           !.messages_for_ai = messages,
                           !.api_messages = ApiMessages(messages),
                           !.groq_api_key = Some(key)] IN
         calls' = [calls EXCEPT ![c] =
            IF key = "" THEN KeyMissing(entered)
            ELSE [entered EXCEPT !.pc = "post"]]
    /\ UNCHANGED <<chats_collection, clock, overlapped, successes>>

\* the request is on its way: of the local variables, only user_message
\* is read again (line 189)
Awaiting(call) ==
    [call EXCEPT !.requests_sent = @ + 1,
                 !.chat_doc = None,
                 !.messages_for_ai = <<>>,
                 !.api_messages = <<>>,
                 !.pc = "await"]

\* lines 108-123: client.post encodes the JSON body, then sends the request
ClientPost(c) ==
    /\ calls[c].pc = "post"
    /\ calls' = [calls EXCEPT ![c] =
         IF JsonEncodable(calls[c].api_messages)
         THEN Awaiting(calls[c])
         ELSE ClientFail(calls[c],
                  ClientCatch(OtherException("TypeError", "not JSON serializable")))]
    /\ UNCHANGED <<chats_collection, clock, overlapped, successes>>

\* lines 125-132 and 176-181: the provider answers
ProviderAnswer(c) ==
    /\ calls[c].pc = "await"
    /\ \/ LET text == CompletionOf(c) IN
            calls' = [calls EXCEPT ![c] =
               [calls[c] EXCEPT
                  !.upstream = Some([status_code |-> OkStatus, text |-> text]),
                  !.ai_response = text,
                  !.assistant_message = [role |-> "assistant", content |-> text,
                                         timestamp |-> clock],
                  !.pc = "update_one"]]
       \/ \E status \in ProviderStatuses \ {OkStatus}, text \in ErrorBodies :
            calls' = [calls EXCEPT ![c] =
               ClientFail([calls[c] EXCEPT
                              !.upstream = Some([status_code |-> status, text |-> text])],
                          ClientCatch(HTTPException(status, <<"Groq API error", text>>)))]
    /\ UNCHANGED <<chats_collection, clock, overlapped, successes>>

\* lines 134-135: the request exceeds timeout=30.0
ProviderTimeout(c) ==
    /\ calls[c].pc = "await"
    /\ calls' = [calls EXCEPT ![c] =
          ClientFail(calls[c], HTTPException(TimeoutStatus, <<"Request timeout">>))]
    /\ UNCHANGED <<chats_collection, clock, overlapped, successes>>

\* lines 136-137: any other failure of the request or of reading the answer
TransportError(c) ==
    /\ calls[c].pc = "await"
    /\ calls' = [calls EXCEPT ![c] =
          ClientFail(calls[c], ClientCatch(OtherException("ConnectError", "connection failed")))]
    /\ UNCHANGED <<chats_collection, clock, overlapped, successes>>

\* lines 183-196
UpdateOneStep(c) ==
    /\ calls[c].pc = "update_one"
    /\ LET sid == calls[c].chat_request.session_id
           after == UpdateOnePush(chats_collection, sid,
                        <<calls[c].user_message, calls[c].assistant_message>>, clock)
       IN
       \/ /\ chats_collection' = after
          /\ calls' = [calls EXCEPT ![c] =
                Returned([calls[c] EXCEPT !.pushed =
                             @ + TotalTurns(after) - TotalTurns(chats_collection)],
                         ChatResponse(calls[c].ai_response, sid))]
          /\ successes' = [successes EXCEPT ![sid] =
                Append(@, <<calls[c].chat_request.message, calls[c].ai_response>>)]
       \/ /\ calls' = [calls EXCEPT ![c] =
                Fail(calls[c], OtherException("PyMongoError", "update_one"))]
          /\ UNCHANGED <<chats_collection, successes>>
    /\ UNCHANGED <<clock, overlapped>>

\* lines 201-209: GET /api/health pings the database
HealthCheck(c) ==
    /\ calls[c].pc = "idle"
    /\ \A d \in Calls : d < c => calls[d].pc # "idle"
    /\ \E ping \in BOOLEAN :
         calls' = [calls EXCEPT ![c] =
            [IdleCall EXCEPT
               !.pc = "done",
               !.endpoint = "/api/health",
               !.response =
                  IF ping THEN [NoResponse EXCEPT !.status_code = OkStatus]
                  ELSE ErrorResponse(HTTPException(UnhealthyStatus,
                                        <<"Database connection failed">>))]]
    /\ UNCHANGED <<chats_collection, clock, overlapped, successes>>

Next ==
    \/ \E c \in Calls :
         \/ HealthCheck(c)
         \/ Receive(c)
         \/ FindOneStep(c)
         \/ InsertOneStep(c)
         \/ GetChatResponse(c)
         \/ ClientPost(c)
         \/ ProviderAnswer(c)
         \/ ProviderTimeout(c)
         \/ TransportError(c)
         \/ UpdateOneStep(c)

Spec == Init /\ [][Next]_vars

\* the steps of a chat call that has been received
Step(c) ==
    \/ FindOneStep(c)
    \/ InsertOneStep(c)
    \/ GetChatResponse(c)
    \/ ClientPost(c)
    \/ ProviderAnswer(c)
    \/ ProviderTimeout(c)
    \/ TransportError(c)
    \/ UpdateOneStep(c)

\* The recruiter metadata of a request is stored and never read again: the
\* fair specification receives chat requests without it.
ReceiveNoMetadata(c) ==
    /\ Receive(c)
    /\ calls'[c].chat_request.recruiter_info = None

FairNext == \E c \in Calls : ReceiveNoMetadata(c) \/ Step(c)

\* A received call is run by its event loop; each store operation returns
\* or raises; the awaited request ends with an answer, with an error or,
\* after timeout=30.0 (line 122), with the timeout.
FairSpec == Init /\ [][FairNext]_vars /\ \A c \in Calls : WF_vars(Step(c))

\* ---- properties ----------------------------------------------------------
\* the stored turn sequence of a session: the messages of the document that
\* find_one returns for it
Turns(sid) ==
    IF FindOne(chats_collection, sid) = None THEN <<>>
    ELSE FindOne(chats_collection, sid)[1].messages

\* C1: on a session whose calls never overlapped, after N calls answered
\* with 200 the stored turn sequence has exactly 2N entries, the k-th pair
\* being the user turn with the message of the k-th such call followed by
\* the assistant turn with the reply to it.
C1_SequentialCallsStorePairs ==
    \A sid \in SessionIds :
        ~overlapped[sid] =>
            /\ Len(Turns(sid)) = 2 * Len(successes[sid])
            /\ \A k \in 1..Len(successes[sid]) :
                  /\ Turns(sid)[2 * k - 1].role = "user"
                  /\ Turns(sid)[2 * k - 1].content = successes[sid][k][1]
                  /\ Turns(sid)[2 * k].role = "assistant"
                  /\ Turns(sid)[2 * k].content = successes[sid][k][2]

\* a session with no overlap on which one call failed and one succeeded
C1_Witness ==
    \E sid \in SessionIds :
        /\ ~overlapped[sid]
        /\ Len(successes[sid]) = 1
        /\ Len(Turns(sid)) = 2
        /\ \E c \in Calls : /\ calls[c].pc = "done"
                              /\ calls[c].chat_request.session_id = sid
                              /\ calls[c].response.status_code = InternalStatus

\* C2: a chat call whose LLM client failed (get_chat_response raised) has
\* pushed no turn, while it runs and after it has ended.
C2_ClientFailurePushesNothing ==
    \A c \in Calls :
        calls[c].client_error # None => calls[c].pushed = 0

\* a call that ended on a provider timeout, on a session that holds turns
C2_Witness ==
    \E c \in Calls :
        /\ calls[c].pc = "done"
        /\ calls[c].client_error # None
        /\ calls[c].client_error[1].status_code = TimeoutStatus
        /\ Len(Turns(calls[c].chat_request.session_id)) > 0

\* C3: the collection holds at most one document per session_id.
C3_AtMostOneRecordPerSession ==
    \A sid \in SessionIds : Cardinality(Matching(chats_collection, sid)) <= 1

\* the answer of a call whose insert_one raised
InsertFailed(c) ==
    /\ calls[c].pc = "done"
    /\ calls[c].response.detail = <<"Error processing chat", "insert_one">>

\* what holds of every call about the creation of its session, whether
\* or not insert_one succeeded
CreationFacts(c) ==
    /\ calls[c].lookup = "present" => calls[c].inserted = 0
    /\ calls[c].inserted <= 1
    /\ calls[c].inserted = 1 =>
          /\ calls[c].lookup = "absent"
          /\ Matching(chats_collection, calls[c].chat_request.session_id) # {}
    /\ (calls[c].lookup = "absent" /\ calls[c].pc \in {"get_chat_response", "post"}) =>
          /\ calls[c].chat_doc[1].messages = <<>>
          /\ calls[c].chat_doc[1].recruiter_info =
                 RecruiterDict(calls[c].chat_request.recruiter_info)
          /\ \E i \in Matching(chats_collection, calls[c].chat_request.session_id) :
                 /\ chats_collection[i].recruiter_info =
                        RecruiterDict(calls[c].chat_request.recruiter_info)
                 /\ chats_collection[i].created_at = calls[c].chat_doc[1].created_at

History(c) == SubSeq(calls[c].messages_for_ai, 1, Len(calls[c].messages_for_ai) - 1)
StoredAtLookup(c) == calls[c].chat_doc[1].messages
Window(c) ==
    IF Len(StoredAtLookup(c)) < ContextLimit THEN Len(StoredAtLookup(c)) ELSE ContextLimit

\* C5: the history used as context is exactly the last min(10, L) turns
\* of the L stored turns read by the call, in stored order.
C5_ContextIsLastTurns ==
    \A c \in Calls :
        calls[c].pc = "post" =>
            /\ Len(History(c)) = Window(c)
            /\ Len(History(c)) <= ContextLimit
            /\ \A i \in 1..Window(c) :
                  History(c)[i] = StoredAtLookup(c)[Len(StoredAtLookup(c)) - Window(c) + i]

\* a call on a session with more than 10 stored turns
C5_Witness ==
    \E c \in Calls :
        /\ calls[c].pc = "post"
        /\ Len(StoredAtLookup(c)) > ContextLimit
        /\ Len(History(c)) = ContextLimit

\* C6: the message list handed to the provider request is the system
\* prompt, then the context history in stored order, then the new user
\* message; its length is 2 + min(10, L).
C6_ApiMessagesOrder ==
    \A c \in Calls :
        calls[c].pc = "post" =>
            LET api == calls[c].api_messages IN
            /\ Len(api) = 2 + Window(c)
            /\ api[1] = [role |-> "system", content |-> CANDIDATE_INFO]
            /\ \A i \in 2..Len(api) : api[i].role # "system"
            /\ \A i \in 1..Window(c) :
                  api[i + 1] = StoredAtLookup(c)[Len(StoredAtLookup(c)) - Window(c) + i]
            /\ api[Len(api)] =
                  [role |-> "user", content |-> calls[c].chat_request.message]

\* a message list of full length: prompt, 10 turns of history, new message
C6_Witness ==
    \E c \in Calls :
        /\ calls[c].pc = "post"
        /\ Len(calls[c].api_messages) = ContextLimit + 2

\* C7: every history entry passed to the LLM client has exactly the
\* fields role and content.
C7_HistoryEntriesRoleContentOnly ==
    \A c \in Calls :
        calls[c].pc = "post" =>
            \A i \in 1..Len(History(c)) :
                DOMAIN History(c)[i] = {"role", "content"}

\* C8: a call that read no credential has sent no request to the provider
\* and its client raised the configuration error.
C8_NoKeyNoRequest ==
    \A c \in Calls :
        calls[c].groq_api_key = Some("") =>
            /\ calls[c].requests_sent = 0
            /\ calls[c].upstream = None
            /\ calls[c].client_error =
                  Some(HTTPException(InternalStatus, <<"Groq API key not configured">>))

\* a call that ended because no credential was configured
C8_Witness ==
    \E c \in Calls :
        /\ calls[c].pc = "done"
        /\ calls[c].groq_api_key = Some("")
        /\ calls[c].response.status_code = InternalStatus

\* C9: a chat call is answered 200 or 500, and 500 whenever it failed;
\* 503 is answered by the health endpoint only.
C9_ChatFailuresAre500 ==
    \A c \in Calls :
        calls[c].pc = "done" =>
            /\ IsChat(c) => calls[c].response.status_code \in {OkStatus, InternalStatus}
            /\ (IsChat(c) /\ calls[c].response.status_code = OkStatus) =>
                  (calls[c].client_error = None /\ calls[c].pushed = 2)
            /\ calls[c].response.status_code = UnhealthyStatus =>
                  calls[c].endpoint = "/api/health"

\* a chat call answered 500 after the provider answered 503, and one after
\* the request timed out
C9_Witness ==
    /\ \E c \in Calls :
          /\ IsChat(c) /\ calls[c].pc = "done"
          /\ calls[c].upstream # None
          /\ calls[c].upstream[1].status_code = UnhealthyStatus
          /\ calls[c].response.status_code = InternalStatus
    /\ \E c \in Calls :
          /\ IsChat(c) /\ calls[c].pc = "done"
          /\ calls[c].client_error = Some(HTTPException(TimeoutStatus, <<"Request timeout">>))
          /\ calls[c].response.status_code = InternalStatus

\* C10: the error raised by the LLM client for a provider answer with a
\* non-success status carries that status, and the one for a timeout is
\* the timeout error.
C10_UpstreamErrorCarriesStatus ==
    \A c \in Calls :
        calls[c].client_error # None =>
            /\ (calls[c].upstream # None) =>
                  calls[c].client_error[1].status_code = calls[c].upstream[1].status_code
            /\ calls[c].client_error[1].status_code = TimeoutStatus =>
                  calls[c].upstream = None

\* C11: a chat call sends at most one completion request, and exactly one
\* once it has read a credential after a successful lookup or creation.
C11_OneRequestPerCall ==
    \A c \in Calls :
        /\ calls[c].requests_sent <= 1
        /\ (calls[c].pc = "done" /\ calls[c].groq_api_key = Some("gsk")) =>
              calls[c].requests_sent = 1

IsPrefix(s, t) ==
    /\ Len(s) <= Len(t)
    /\ (s = t \/ SubSeq(t, 1, Len(s)) = s)

\* C12: in every step each document stays in the collection, at its place
\* and for its session, and its turn sequence before the step is a prefix
\* of its turn sequence after the step.
C12_TurnsAppendOnly ==
    [][/\ Len(chats_collection') >= Len(chats_collection)
       /\ \A i \in 1..Len(chats_collection) :
             /\ chats_collection'[i].session_id = chats_collection[i].session_id
             /\ IsPrefix(chats_collection[i].messages, chats_collection'[i].messages)
       /\ \A sid \in SessionIds :
             IsPrefix(Turns(sid), IF FindOne(chats_collection', sid) = None THEN <<>>
                                  ELSE FindOne(chats_collection', sid)[1].messages)
      ]_vars

\* a session that two calls pushed to, one after the other, and the long
\* session beside it
C12_Witness ==
    /\ Len(Turns("s2")) = 4
    /\ Len(Turns("s1")) = 2 * MaxInitPairs
    /\ \A c \in Calls : calls[c].pc = "done" /\ calls[c].pushed = 2

\* C13: in every step each stored document keeps its recruiter_info and
\* its created_at; a call on an existing session, with or without metadata
\* in its request, changes at most messages and updated_at.
C13_MetadataCreateOnly ==
    [][/\ Len(chats_collection') >= Len(chats_collection)
       /\ \A i \in 1..Len(chats_collection) :
             /\ chats_collection'[i].session_id = chats_collection[i].session_id
             /\ chats_collection'[i].recruiter_info = chats_collection[i].recruiter_info
             /\ chats_collection'[i].created_at = chats_collection[i].created_at
      ]_vars

\* a call that found the session, whose request carries metadata other
\* than the stored one, about to push onto a document that another call
\* has pushed to
C13_Witness ==
    \E c \in Calls :
        /\ calls[c].pc = "update_one"
        /\ calls[c].lookup = "present"
        /\ calls[c].chat_request.recruiter_info # None
        /\ FindOne(chats_collection, calls[c].chat_request.session_id)[1].recruiter_info
              # RecruiterDict(calls[c].chat_request.recruiter_info)
        /\ Len(Turns(calls[c].chat_request.session_id)) = 2

\* the pair that call c stored at turns k and k + 1 of its session
StoredPairAt(c, k) ==
    LET turns == Turns(calls[c].chat_request.session_id) IN
    /\ k + 1 <= Len(turns)
    /\ turns[k].role = "user"
    /\ turns[k].content = calls[c].chat_request.message
    /\ turns[k + 1].role = "assistant"
    /\ turns[k + 1].content = calls[c].response.response

\* C14: a chat call answered 200 returns the text of the provider's
\* completion and the session_id of its request, and has appended the user
\* turn with its message followed by the assistant turn with that text.
C14_SuccessReturnsAndStoresReply ==
    \A c \in Calls :
        (IsChat(c) /\ calls[c].pc = "done" /\ calls[c].response.status_code = OkStatus) =>
            /\ calls[c].upstream =
                  Some([status_code |-> OkStatus, text |-> calls[c].response.response])
            /\ calls[c].response.session_id = calls[c].chat_request.session_id
            /\ calls[c].response.session_id \in SessionIds
            /\ calls[c].pushed = 2
            /\ \E k \in 1..Len(Turns(calls[c].chat_request.session_id)) :
                  StoredPairAt(c, k)

\* a call answered 200 whose pair is the second of its session
C14_Witness ==
    \E c \in Calls :
        /\ IsChat(c) /\ calls[c].pc = "done"
        /\ calls[c].response.status_code = OkStatus
        /\ StoredPairAt(c, 3)

\* the texts of a pair stored by one call (or left by the calls before
\* the start)
SameCallPair(user, assistant) ==
    \/ user.content = "m0" /\ assistant.content = "r0"
    \/ \E c \in Calls : /\ user.content = MessageOf(c)
                         /\ assistant.content = CompletionOf(c)

\* C15: every stored turn sequence has even length and is made of pairs,
\* a user turn followed by the assistant turn of the same call.
C15_TurnsArePairs ==
    \A i \in 1..Len(chats_collection) :
        LET turns == chats_collection[i].messages IN
        /\ Len(turns) % 2 = 0
        /\ \A k \in 1..(Len(turns) \div 2) :
              /\ turns[2 * k - 1].role = "user"
              /\ turns[2 * k].role = "assistant"
              /\ SameCallPair(turns[2 * k - 1], turns[2 * k])

\* two overlapping calls have pushed to one session while a third document
\* of the collection is a duplicate left by the race of C3
C15_Witness ==
    /\ overlapped["s2"]
    /\ Len(Turns("s2")) = 4
    /\ Cardinality(Matching(chats_collection, "s2")) = 2

\* the turns a session held at the start
InitialTurns(sid) == IF sid = "s1" THEN InitDoc.messages ELSE <<>>

\* C16: no update is lost, overlap or not: the stored turns of a session
\* are its prior turns followed by the pairs of all its calls answered 200,
\* in the order in which update_one was applied.
C16_NoLostUpdate ==
    \A sid \in SessionIds :
        LET turns == Turns(sid)
            L == Len(InitialTurns(sid)) IN
        /\ Len(turns) = L + 2 * Len(successes[sid])
        /\ SubSeq(turns, 1, L) = InitialTurns(sid)
        /\ \A k \in 1..Len(successes[sid]) :
              /\ turns[L + 2 * k - 1].content = successes[sid][k][1]
              /\ turns[L + 2 * k].content = successes[sid][k][2]

\* two calls that read the same empty history and were both answered 200,
\* the pair of the call that started second stored first
C16_Witness ==
    /\ overlapped["s2"]
    /\ Len(Turns("s2")) = 4
    /\ Turns("s2")[1].content = MessageOf(2)
    /\ Turns("s2")[3].content = MessageOf(1)
    /\ \A c \in {1, 2} : calls[c].response.status_code = OkStatus

\* C17: the chat calls that were received all end, each answered 200 or
\* 500, and stay ended; and while a call waits for the provider, the next
\* step of a running call on another session can be taken.
C17_EveryCallCompletes ==
    /\ <>[](\A c \in Calls :
              /\ ~Running(c)
              /\ calls[c].pc = "done" =>
                    calls[c].response.status_code \in {OkStatus, InternalStatus})
    /\ [](\A c, d \in Calls :
            (/\ calls[c].pc = "await"
             /\ Running(d)
             /\ calls[d].chat_request.session_id # calls[c].chat_request.session_id)
            => ENABLED Step(d))

\* a call on another session has ended while a call waits for the provider
C17_Witness ==
    \E c, d \in Calls :
        /\ calls[c].pc = "await"
        /\ calls[d].pc = "done"
        /\ calls[d].chat_request.session_id # calls[c].chat_request.session_id
        /\ calls[d].response.status_code = InternalStatus

\* the step in which get_chat_response of call c raises
ClientFails(c) == calls[c].client_error = None /\ calls'[c].client_error # None

\* the step in which find_one of call c returns None
FindsNothing(c) == calls[c].lookup = "" /\ calls'[c].lookup = "absent"

\* C18: the record a call created stays when its LLM client fails, with the
\* metadata of that call and, if no other call pushed, with zero turns; a
\* later lookup of the session_id finds a record, and a call that found
\* one inserts nothing.
C18_CreationNotRolledBack ==
    /\ [](\A c \in Calls :
            /\ (Running(c) /\ calls[c].inserted = 1) =>
                  \E i \in Matching(chats_collection, calls[c].chat_request.session_id) :
                     chats_collection[i].recruiter_info =
                        RecruiterDict(calls[c].chat_request.recruiter_info)
            /\ (calls[c].inserted = 1 /\ calls[c].client_error # None) =>
                  /\ Matching(chats_collection, calls[c].chat_request.session_id) # {}
                  /\ successes[calls[c].chat_request.session_id] = <<>> =>
                        Turns(calls[c].chat_request.session_id) = <<>>
            /\ calls[c].lookup = "present" => calls[c].inserted = 0)
    /\ [][\A c \in Calls :
            /\ ClientFails(c) => chats_collection' = chats_collection
            /\ FindsNothing(c) =>
                  Matching(chats_collection, calls[c].chat_request.session_id) = {}
         ]_vars

\* the first call created the session and failed in the LLM client; the
\* next call, with other metadata, found the record, which holds no turn
\* and not the metadata of the next call
C18_Witness ==
    \E c, d \in Calls :
        /\ calls[c].pc = "done"
        /\ calls[c].inserted = 1
        /\ calls[c].client_error # None
        /\ calls[d].chat_request.session_id = calls[c].chat_request.session_id
        /\ ~overlapped[calls[c].chat_request.session_id]
        /\ calls[d].pc = "post"
        /\ calls[d].lookup = "present"
        /\ calls[d].inserted = 0
        /\ calls[d].chat_request.recruiter_info # None
        /\ Cardinality(Matching(chats_collection, calls[c].chat_request.session_id)) = 1
        /\ Turns(calls[c].chat_request.session_id) = <<>>
        /\ FindOne(chats_collection, calls[c].chat_request.session_id)[1].recruiter_info = {}

====
